---- MODULE Spec2Model ----
(***************************************************************************)
(* A model of the statement execution protocol client of                   *)
(* sqlalchemy_dialect/dbapi.py: Connection, Cursor, the status poller      *)
(* (Cursor._poll_for_results), the result paginator and row materializer   *)
(* (Cursor._fetch_results, Connection._get_statement_results) and the      *)
(* mapping of failures onto the DBAPI exception classes.                   *)
(*                                                                         *)
(* One caller drives the connection: a call to execute blocks until it      *)
(* returns or raises, so at most one execute is in flight.  An execute is  *)
(* modelled request by request: the submission, each iteration of the      *)
(* polling loop and each iteration of the pagination loop is one step, and  *)
(* the remote service chooses its answer to every request.                 *)
(*                                                                         *)
(* Time is counted in units of 2^-7 seconds: every interval the poller      *)
(* computes (0.5 * 1.5^i for i <= 6, and 5.0) is a whole number of them,    *)
(* as it is an exact binary floating point number in the code.             *)
(***************************************************************************)
EXTENDS Integers, Sequences, FiniteSets, TLC

VARIABLES
    conn,    \* the Connection object
    cursor,  \* the Cursor objects, by identity
    exec,    \* the call in flight: position and locals of execute
    srv,     \* the statement held by the remote service for the call in flight
    ret,     \* what the last completed call returned or raised
    mat,     \* input and output of one materialization of a result page
    bind,    \* input and output of one conversion of execute's parameters
    auth,    \* the credential resolution of the cursors and the session header
    loop,    \* what the last iteration of the pagination loop saw and decided
    prev,    \* the cursor as it was when the execute under study was called
    parked   \* the call of the caller that is not running, and the steps each caller took

vars == <<conn, cursor, exec, srv, ret, mat, bind, auth, loop, prev, parked>>

\* The variables of the parts studied on their own
aux == <<mat, bind, auth, loop, prev, parked>>

----------------------------------------------------------------------------
(* Bounds of the model *)

MaxRows == 4        \* rows in a statement's result on the server
MaxLimit == 2       \* rows the server puts in one page, at most
MaxArraysize == 2   \* values of Cursor.arraysize the caller sets
MaxFetches == 5     \* page fetches of one execution the model follows
MaxBatch == 2       \* parameter sets handed to executemany
MaxCols == 2        \* column records in one page
MaxValues == 2      \* values in one column record
MaxText == 4        \* characters in the SQL text handed to execute
MaxArgs == 2        \* positional arguments handed to execute

----------------------------------------------------------------------------
(* Values *)

CursorIds == {"c1", "c2"}

Scale == 2 ^ 7                    \* time units per second
Absent == "<absent>"              \* a key the JSON object does not carry
NoneHandle == "<None>"            \* Cursor._statement_handle is None
NoDescription == <<>>             \* Cursor._description is None
NoSize == -1                      \* fetchmany's size is None
NoTotal == -1                     \* total_rows is None
BadTotal == -2                    \* a total_rows value int() rejects

Min(a, b) == IF a <= b THEN a ELSE b
Max(a, b) == IF a >= b THEN a ELSE b

SucceededStates == {"SUCCEEDED", "SUCCESS", "COMPLETED"}
FailedStates == {"FAILED", "ERROR", "CANCELLED"}
PendingStates == {"SUBMITTED", "RUNNING", "PENDING", "EXECUTING"}
\* States the service may report besides these: its own UNKNOWN, and
\* INCHOATE, which tests/plain_script.py expects from the data service.
OtherStates == {"UNKNOWN", "INCHOATE"}
ServerStates == SucceededStates \cup FailedStates \cup PendingStates \cup OtherStates

----------------------------------------------------------------------------
(* Exceptions.  A call ends with exc = "None" when it returns normally. *)

NoException == [exc |-> "None", msg |-> <<>>]
Raise(kind, msg) == [exc |-> kind, msg |-> msg]

----------------------------------------------------------------------------
(* State of the objects *)

\* Cursor.__init__: the fields of a new cursor.  returned is a history of
\* the cursor, not a field of it: the rows the fetches handed out since the
\* last execute, in order.
NewCursor ==
    [created |-> TRUE, closed |-> FALSE, rows |-> <<>>, row_index |-> 0,
     description |-> NoDescription, rowcount |-> -1, arraysize |-> 1,
     statement_handle |-> NoneHandle, returned |-> <<>>]

\* A cursor identity no cursor() call has returned yet
NotCreated == [NewCursor EXCEPT !.created = FALSE]

\* Connection.__init__
NewConnection == [closed |-> FALSE]

\* No call is in flight.  The fields below remaining are the locals of
\* _poll_for_results and _fetch_results, and a record of what the execute in
\* flight did: its sleeps, the number of polls it classified and the last
\* answer polled (last_kind, last_state, last_description), its page
\* fetches and requests to the results endpoint, whether a request of it
\* failed in the transport, and whether the call sent any request at all.
Idle ==
    [pc |-> "idle", cur |-> "c1", op |-> "none", remaining |-> 0,
     elapsed |-> 0, poll_interval |-> 0, sleeps |-> <<>>, polls |-> 0,
     last_state |-> Absent, last_description |-> Absent,
     page_size |-> 0, offset |-> 0, has_description |-> FALSE,
     rows |-> <<>>, total_rows |-> NoTotal, fetches |-> 0,
     results_gets |-> 0, sent |-> FALSE,
     last_kind |-> "none", transport |-> FALSE]

\* The service holds no statement
NoStatement ==
    [n |-> 0, limit |-> 1, embedded |-> FALSE, shape |-> "rows",
     total |-> NoTotal, honest |-> TRUE, known |-> FALSE]

\* What a call gave back: the exception it raised if any, the rows it
\* returned (none: it returned None), and whether it sent a request; size
\* is the size argument of a fetchmany.
NoCall == [op |-> "none", cur |-> "c1", exc |-> "None", msg |-> <<>>,
           value |-> <<>>, none |-> FALSE, sent |-> FALSE, size |-> NoSize]

\* The call has not returned yet
InFlight(op, c) == [NoCall EXCEPT !.op = op, !.cur = c, !.exc = "InFlight"]

Returned(op, c, e, value, none, sent) ==
    [op |-> op, cur |-> c, exc |-> e.exc, msg |-> e.msg,
     value |-> value, none |-> none, sent |-> sent, size |-> NoSize]

\* A second caller, of cursor c2, that has made no call yet and is not running
NoParked ==
    [exec |-> [Idle EXCEPT !.cur = "c2"], srv |-> NoStatement,
     ret |-> [NoCall EXCEPT !.cur = "c2"]]

\* The Authorization header of the session: none, or Bearer <token>
NoHeader == <<>>
Bearer(token) == <<"Bearer", token>>

\* None as a credential or token
NoToken == "<None>"

\* No iteration of the pagination loop was observed.  Otherwise: whether the
\* iteration raised, the rows it gained, the offset after it, total_rows,
\* whether the page had a truthy next_page, and whether the loop ended;
\* first: the column names of the first page read that carried some, and
\* last: those of the page read last (none: the empty sequence).
NoLoop == [seen |-> FALSE, raised |-> FALSE, fetched_this_page |-> 0,
           offset |-> 0, total_rows |-> NoTotal, next_page |-> FALSE,
           stopped |-> FALSE, first |-> <<>>, last |-> <<>>]

\* The credential resolution of one cursor: pc is the position in
\* Cursor.__init__ ("none": not called), token the local variable, posts
\* the token requests sent, failed: the resolution was given up, raised:
\* an exception left __init__
NoResolution ==
    [pc |-> "none", jwt_token |-> NoToken, token |-> NoToken,
     posts |-> 0, failed |-> FALSE, raised |-> FALSE]

\* The last request sent on the session: who sent it, the Authorization
\* header it carried, and how many header writes came before it
NoRequest == [kind |-> "none", by |-> "c1", carried |-> NoHeader, nwrites |-> 0]

\* writes is a history: the tokens written to the session header, in order
NoAuth ==
    [username |-> NoToken, secret |-> NoToken, header |-> NoHeader,
     cur |-> [c \in CursorIds |-> NoResolution],
     writes |-> <<>>, request |-> NoRequest]

NoMat == [page |-> <<>>, rows |-> <<>>, description |-> NoDescription,
          raised |-> FALSE, done |-> FALSE]

\* No parameters argument (None), a mapping (items: its name-value pairs)
\* or another sequence (args)
NoParameters == [kind |-> "none", items |-> {}, args |-> <<>>]
Mapping(items) == [kind |-> "dict", items |-> items, args |-> <<>>]
Positional(args) == [kind |-> "seq", items |-> {}, args |-> args]

\* The JSON body of the submission: sqlText and, if present, parameters
Payload0 == [sqlText |-> <<>>, has_parameters |-> FALSE, parameters |-> {}]

NoBind == [operation |-> <<>>, parameters |-> NoParameters,
          sql |-> <<>>, params_none |-> TRUE, params_dict |-> {},
          payload |-> Payload0, done |-> FALSE]

----------------------------------------------------------------------------
(* Closed checks *)

\* A closed check that never raises
CursorCheckClosedNever(c) == NoException

\* Cursor._check_closed
CursorCheckClosed(c) ==
    IF cursor[c].closed THEN Raise("ProgrammingError", <<"Cursor is closed">>)
    ELSE NoException

\* Connection._check_closed
ConnCheckClosed ==
    IF conn.closed THEN Raise("ProgrammingError", <<"Connection is closed">>)
    ELSE NoException

----------------------------------------------------------------------------
(* JSON values of a result page.                                           *)
(* An element of "columns" or "data" is a JSON object (kind "dict") that   *)
(* may carry "name" and "values", or a JSON array (kind "list") whose      *)
(* items are in values.                                                    *)

ColRec(name, values) ==
    [kind |-> "dict", has_name |-> TRUE, name |-> name,
     has_values |-> TRUE, values |-> values]
ColMeta(name) ==
    [kind |-> "dict", has_name |-> TRUE, name |-> name,
     has_values |-> FALSE, values |-> <<>>]
Unnamed(values) ==
    [kind |-> "dict", has_name |-> FALSE, name |-> Absent,
     has_values |-> TRUE, values |-> values]
RowList(cells) ==
    [kind |-> "list", has_name |-> FALSE, name |-> Absent,
     has_values |-> FALSE, values |-> cells]

\* The JSON object of a status or results response, as _fetch_results reads it
JsonPage(has_total, total_rows, has_columns, columns, has_data, data, next_page) ==
    [has_total |-> has_total, total_rows |-> total_rows,
     has_columns |-> has_columns, columns |-> columns,
     has_data |-> has_data, data |-> data, next_page |-> next_page]

\* A JSON object carrying none of the keys _fetch_results reads
BarePage == JsonPage(FALSE, 0, FALSE, <<>>, FALSE, <<>>, FALSE)

----------------------------------------------------------------------------
(* Cursor._fetch_results: one iteration of the loop, on its locals *)

DefaultNames == <<"col0", "col1", "col2", "col3">>

\* (col.get("name", f"col{i}"), None, None, None, None, None, None)
DescriptionEntry(col, i) ==
    << IF col.has_name THEN col.name ELSE DefaultNames[i + 1],
       "None", "None", "None", "None", "None", "None" >>

\* [(col.get("name", f"col{i}"), None, ...) for i, col in enumerate(cols)]
DescriptionOf(cols) ==
    [i \in 1..Len(cols) |-> DescriptionEntry(cols[i], i - 1)]

\* int(result.get("total_rows", 0)), None when int() raises
ParseTotal(result) ==
    IF result.total_rows = BadTotal THEN NoTotal ELSE result.total_rows

\* result.get("columns", [])
ColumnsMeta(result) == IF result.has_columns THEN result.columns ELSE <<>>

\* result.get("data", [])
DataOf(result) == IF result.has_data THEN result.data ELSE <<>>

\* isinstance(data[0], dict) and "values" in data[0]
IsColumnar(data) == data[1].kind = "dict" /\ data[1].has_values

\* [col.get("values", []) for col in data]
ValuesLists(data) ==
    [j \in 1..Len(data) |-> IF data[j].has_values THEN data[j].values ELSE <<>>]

\* values_lists[j][i] raises IndexError for a column shorter than the first
RaisesIndexError(values_lists) ==
    \E j \in 1..Len(values_lists) :
        Len(values_lists[j]) < Len(values_lists[1])

\* The values lists taken as rows, without transposition
ColumnarRowsUntransposed(values_lists) == values_lists

\* for i in range(len(values_lists[0])):
\*     tuple(values_lists[j][i] for j in range(len(values_lists)))
ColumnarRows(values_lists) ==
    [i \in 1..Len(values_lists[1]) |->
        [j \in 1..Len(values_lists) |-> values_lists[j][i]]]

\* The loop over the rows stopping one row early
RowOrientedRowsButLast(data) == [i \in 1..(Len(data) - 1) |-> data[i].values]

\* for row in data: tuple(row)
RowOrientedRows(data) == [i \in 1..Len(data) |-> data[i].values]

\* The rows a page adds to the local list
PageRows(data) ==
    IF data = <<>> THEN <<>>
    ELSE IF IsColumnar(data) THEN ColumnarRows(ValuesLists(data))
    ELSE RowOrientedRows(data)

\* Whether assembling the page's rows raises
PageRaises(data) ==
    /\ data # <<>>
    /\ IsColumnar(data)
    /\ RaisesIndexError(ValuesLists(data))

\* The description taken from every page that carries names
PageDescriptionLastWins(description, has_description, result) ==
    IF ColumnsMeta(result) # <<>> THEN DescriptionOf(ColumnsMeta(result))
    ELSE IF DataOf(result) # <<>> /\ IsColumnar(DataOf(result))
         THEN DescriptionOf(DataOf(result))
    ELSE description

\* The description after the page: lines 291-297 and 303-308
PageDescription(description, has_description, result) ==
    IF has_description THEN description
    ELSE IF ColumnsMeta(result) # <<>> THEN DescriptionOf(ColumnsMeta(result))
    ELSE IF DataOf(result) # <<>> /\ IsColumnar(DataOf(result))
         THEN DescriptionOf(DataOf(result))
    ELSE description

PageHasDescription(has_description, result) ==
    \/ has_description
    \/ ColumnsMeta(result) # <<>>
    \/ DataOf(result) # <<>> /\ IsColumnar(DataOf(result))

\* total_rows after the page: lines 284-288
PageTotal(total_rows, result) ==
    IF total_rows = NoTotal /\ result.has_total THEN ParseTotal(result)
    ELSE total_rows

\* The progress guard off by one
NoProgressStrict(fetched_this_page) == fetched_this_page < 0

\* The progress guard, line 321: nothing gained
NoProgress(fetched_this_page) == fetched_this_page <= 0

\* The loop tail that trusts a missing next_page below the reported total
StopsWithoutNextPage(offset, total_rows, next_page) ==
    \/ total_rows # NoTotal /\ offset >= total_rows
    \/ ~next_page

\* Lines 327-332, evaluated with the offset already advanced
StopsAfter(offset, total_rows, next_page) ==
    \/ total_rows # NoTotal /\ offset >= total_rows
    \/ ~next_page /\ (total_rows = NoTotal \/ offset >= total_rows)

----------------------------------------------------------------------------
(* The remote service *)

\* Row i of a statement's result: the columns are "id" and "name"
Row(i) == <<i, 10 + i>>

ResultNames == <<"id", "name">>
OtherNames == <<"a", "b">>

\* Rows lo+1..hi of the result, as a list of rows
RowsPayload(lo, hi) == [k \in 1..(hi - lo) |-> RowList(Row(lo + k))]

\* Rows lo+1..hi of the result, as one record per column
ColsPayload(lo, hi) ==
    [j \in 1..2 |-> ColRec(ResultNames[j], [k \in 1..(hi - lo) |-> Row(lo + k)[j]])]

Payload(shape, lo, hi) ==
    IF shape = "rows" THEN RowsPayload(lo, hi) ELSE ColsPayload(lo, hi)

MetaOf(names) == [j \in 1..Len(names) |-> ColMeta(names[j])]

\* The statements the service may hold once execution succeeded: n rows,
\* at most limit rows in a page, the page embedded in the status response
\* or served by the results endpoint, either payload shape, and a reported
\* total_rows that is absent, unusable or n.
StatementsOf(n) ==
    { [n |-> n, limit |-> l, embedded |-> e, shape |-> sh, total |-> t,
       honest |-> TRUE, known |-> TRUE] :
        l \in 1..MaxLimit, e \in BOOLEAN,
        sh \in {"rows", "cols"}, t \in {NoTotal, BadTotal, n} }

Statements == UNION { StatementsOf(n) : n \in 0..MaxRows }

\* What the service puts in a page besides the reported total:
\*   variant "slice": the rows of the page; "empty": a payload of no rows;
\*           "absent": no data key at all
\*   np: a next_page value that is present and true
\*   meta: the column metadata: none, the result's names, or other names
Variants == {"slice", "empty", "absent"}
Metas == {"none", "names", "other"}

\* The answer to GET .../results?num_rows=&offset= for statement s
ResultsPage(s, offset, num_rows, variant, np, meta) ==
    LET lo == Min(offset, s.n)
        hi == Min(lo + Min(s.limit, num_rows), s.n)
    IN  JsonPage(s.total # NoTotal, s.total,
                 meta # "none",
                 IF meta = "names" THEN MetaOf(ResultNames)
                 ELSE IF meta = "other" THEN MetaOf(OtherNames) ELSE <<>>,
                 variant # "absent",
                 IF variant = "slice" THEN Payload(s.shape, lo, hi)
                 ELSE IF variant = "empty" THEN Payload(s.shape, lo, lo) ELSE <<>>,
                 np)

\* The answer to GET .../statements/{handle} for a succeeded statement: the
\* request carries no offset, so an embedded page is always the first one.
StatusPage(s, variant, np, meta) ==
    IF s.embedded THEN ResultsPage(s, 0, s.limit, variant, np, meta)
    ELSE BarePage

Handles == {"h1"}
Descriptions == {Absent, "boom"}

\* The answers to the submission: a failure of the transport; an HTTP error
\* status whose body is a JSON object, no JSON or empty ("http"); an HTTP
\* error status whose body is JSON but no object, such as [1], "error", 7,
\* true or null ("httpvalue"); or a JSON object whose statementHandle is a
\* handle, "" or absent
SubmitAnswers ==
    { [kind |-> k, handle |-> NoneHandle] :
        k \in {"transport", "http", "httpvalue"} }
    \cup { [kind |-> "ok", handle |-> h] : h \in Handles \cup {"", NoneHandle} }

\* The answers to a status request of the poller: a failure of the
\* transport, a 404, another HTTP error status, or a JSON object with a state
\* (or none) and, for a failed statement, a description (or none)
PollAnswers ==
    { [kind |-> k, state |-> Absent, description |-> Absent] :
        k \in {"transport", "http404", "http"} }
    \cup { [kind |-> "ok", state |-> st, description |-> Absent] :
        st \in (ServerStates \ FailedStates) \cup {Absent} }
    \cup { [kind |-> "ok", state |-> st, description |-> d] :
        st \in FailedStates, d \in Descriptions }

\* The answers to one page fetch for statement s: the status request fails;
\* or it succeeds and (unless the page is embedded in it) the results
\* request fails in the transport, or answers with another status than 200,
\* or answers 200 with a page.
PageAnswers(s) ==
    { [skind |-> k, rkind |-> "ok", variant |-> "absent", np |-> FALSE, meta |-> "none"] :
        k \in {"transport", "http404", "http"} }
    \cup { [skind |-> "ok", rkind |-> r, variant |-> "absent", np |-> FALSE, meta |-> "none"] :
        r \in IF s.embedded THEN {} ELSE {"non200", "transport"} }
    \cup { [skind |-> "ok", rkind |-> "ok", variant |-> v, np |-> np, meta |-> m] :
        v \in Variants, np \in BOOLEAN, m \in Metas }

----------------------------------------------------------------------------
(* Connection: the three requests *)

\* Connection._submit_statement, given the answer to the POST.  In the
\* handler of HTTPError, line 494 calls .get on the decoded body: when the
\* body is JSON but no object this raises AttributeError, which the inner
\* handler (ValueError only) does not catch, so it leaves the method.
SubmitStatement(kind) ==
    IF ConnCheckClosed.exc # "None" THEN ConnCheckClosed
    ELSE IF kind = "http" THEN Raise("DatabaseError", <<"HTTP error">>)
    ELSE IF kind = "httpvalue"
    THEN Raise("AttributeError", <<"object has no attribute 'get'">>)
    ELSE IF kind = "transport" THEN Raise("OperationalError", <<"Connection error">>)
    ELSE NoException

\* Connection._get_statement_status, given the answer to the GET
GetStatementStatus(kind) ==
    IF ConnCheckClosed.exc # "None" THEN ConnCheckClosed
    ELSE IF kind = "http404" THEN Raise("ProgrammingError", <<"Statement not found">>)
    ELSE IF kind = "http" THEN Raise("DatabaseError", <<"HTTP error">>)
    ELSE IF kind = "transport" THEN Raise("OperationalError", <<"Connection error">>)
    ELSE NoException

\* "data" in status or "columns" in status
IsEmbedded(status) == status.has_data \/ status.has_columns

\* Connection._get_statement_results once the status request succeeded:
\* whether the results endpoint is asked
AsksResults(status) == ~IsEmbedded(status)

\* ... and the JSON object it returns
GetStatementResults(status, rkind, rpage) ==
    IF IsEmbedded(status) THEN status
    ELSE IF rkind = "ok" THEN rpage
    ELSE status

----------------------------------------------------------------------------
(* Cursor._poll_for_results: constants and classification *)

MaxWait == 300 * Scale            \* max_wait = 300
InitialIntervalOne == Scale       \* a first interval of 1.0
InitialInterval == Scale \div 2   \* poll_interval = 0.5
IntervalCap == 5 * Scale          \* 5.0

\* The backoff without its cap
NextIntervalUncapped(poll_interval) == (poll_interval * 3) \div 2

\* min(poll_interval * 1.5, 5.0)
NextInterval(poll_interval) == Min((poll_interval * 3) \div 2, IntervalCap)

\* A loop without deadline
KeepsPollingAlways(elapsed) == TRUE

\* while elapsed < max_wait
KeepsPolling(elapsed) == elapsed < MaxWait

\* elapsed += poll_interval
Elapse(elapsed, poll_interval) == elapsed + poll_interval

\* status.get("status", {}).get("state", "UNKNOWN")
StateOf(state) == IF state = Absent THEN "UNKNOWN" ELSE state

\* status.get("status", {}).get("description", "Unknown error")
StatusDescription(description) ==
    IF description = Absent THEN "Unknown error" ELSE description

\* The chain without CANCELLED among the failed states
ClassifyWithoutCancelled(state) ==
    IF state \in SucceededStates THEN "succeeded"
    ELSE IF state \in {"FAILED", "ERROR"} THEN "failed"
    ELSE IF state \in PendingStates THEN "pending"
    ELSE "unknown"

\* The chain that takes every state outside the failed and pending groups
\* for a success
ClassifyUnknownSucceeds(state) ==
    IF state \in FailedStates THEN "failed"
    ELSE IF state \in PendingStates THEN "pending"
    ELSE "succeeded"

\* The branch of the if/elif chain, lines 250-263
Classify(state) ==
    IF state \in SucceededStates THEN "succeeded"
    ELSE IF state \in FailedStates THEN "failed"
    ELSE IF state \in PendingStates THEN "pending"
    ELSE "unknown"

----------------------------------------------------------------------------
(* Calls *)

\* The call in flight raises e: control returns to the caller
Raised(c, x, e) ==
    /\ exec' = [x EXCEPT !.pc = "idle"]
    /\ ret' = Returned(x.op, c, e, <<>>, FALSE, x.sent)

\* A check of the handle against None alone
NoHandleIsNone(handle) == handle = NoneHandle

\* not self._statement_handle, line 230: no handle, or an empty one
NoHandle(handle) == handle \in {"", NoneHandle}

\* Fields kept by the class: an assignment shows in every cursor
AssignedToAll(c, cur) ==
    [d \in CursorIds |-> IF cursor[d].created THEN cur ELSE cursor[d]]

\* self._rows = ..., self._statement_handle = ...: the fields are those of
\* the instance, set up in __init__
Assigned(c, cur) == [cursor EXCEPT ![c] = cur]

\* A reset that keeps the read position
ResetKeepsPosition(cur) ==
    [cur EXCEPT !.rows = <<>>, !.description = NoDescription, !.rowcount = -1,
                !.returned = <<>>]

\* A reset that keeps the buffer and its count
ResetKeepsRows(cur) ==
    [cur EXCEPT !.row_index = 0, !.description = NoDescription]

\* Lines 208-211: execute discards the result that the cursor holds
Reset(cur) ==
    [cur EXCEPT !.rows = <<>>, !.row_index = 0,
                !.description = NoDescription, !.rowcount = -1,
                !.returned = <<>>]

\* Cursor.execute up to the first iteration of the polling loop, lines
\* 207-233: the closed check, the reset of the result, the submission and
\* the check of the handle.  a is the service's answer to the submission.
StartExecute(c, op, remaining, before, a) ==
    LET reset == Reset(cursor[c])
        sub == SubmitStatement(a.kind)
        x == [Idle EXCEPT !.cur = c, !.op = op, !.remaining = remaining,
                          !.sent = before]
        asked == ConnCheckClosed.exc = "None"
        y == [x EXCEPT !.sent = before \/ asked,
                       !.last_kind = IF asked THEN a.kind ELSE "none",
                       !.transport = asked /\ a.kind = "transport"]
    IN  /\ srv' = NoStatement
        /\ UNCHANGED <<conn, aux>>
        /\ IF CursorCheckClosed(c).exc # "None"
           THEN /\ cursor' = cursor
                /\ Raised(c, x, CursorCheckClosed(c))
           ELSE IF sub.exc # "None"
           THEN /\ cursor' = Assigned(c, reset)
                /\ Raised(c, y, sub)
           ELSE /\ cursor' = Assigned(c, [reset EXCEPT !.statement_handle = a.handle])
                /\ IF NoHandle(a.handle)
                   THEN Raised(c, y, Raise("DatabaseError",
                                   <<"No statement handle returned from server">>))
                   ELSE /\ exec' = [y EXCEPT !.pc = "poll", !.elapsed = 0,
                                             !.poll_interval = InitialInterval]
                        /\ ret' = InFlight(op, c)

\* The answers that a submission by cursor c can meet: the POST of line 488
\* is sent only when neither closed check (lines 207, 480) raised, so a call
\* on a closed cursor or connection meets no answer
Submissions(c) ==
    IF CursorCheckClosed(c).exc = "None" /\ ConnCheckClosed.exc = "None"
    THEN SubmitAnswers
    ELSE { [kind |-> "none", handle |-> NoneHandle] }

\* cursor.execute(operation, parameters)
Execute(c) ==
    /\ exec.pc = "idle"
    /\ cursor[c].created
    /\ \E a \in Submissions(c) : StartExecute(c, "execute", 0, FALSE, a)

\* cursor.executemany(operation, seq_of_parameters) with n parameter sets
ExecuteMany(c) ==
    /\ exec.pc = "idle"
    /\ cursor[c].created
    /\ \E n \in 0..MaxBatch :
          IF CursorCheckClosed(c).exc # "None" \/ n = 0
          THEN /\ exec' = [Idle EXCEPT !.cur = c, !.op = "executemany"]
               /\ ret' = Returned("executemany", c, CursorCheckClosed(c), <<>>,
                                  FALSE, FALSE)
               /\ srv' = NoStatement
               /\ UNCHANGED <<conn, cursor, aux>>
          ELSE \E a \in Submissions(c) :
                  StartExecute(c, "executemany", n - 1, FALSE, a)

\* The next execute of an executemany, after the one before returned
ExecuteManyNext(c) ==
    /\ exec.pc = "next"
    /\ exec.cur = c
    /\ \E a \in Submissions(c) :
          StartExecute(c, "executemany", exec.remaining - 1, exec.sent, a)

\* One iteration of the polling loop, lines 246-263; a is the service's
\* answer to the status request.
Poll(c) ==
    /\ exec.pc = "poll"
    /\ exec.cur = c
    /\ KeepsPolling(exec.elapsed)
    /\ UNCHANGED <<conn, cursor, srv, aux>>
    /\ \E a \in PollAnswers :
          LET x == [exec EXCEPT !.sent = TRUE, !.last_kind = a.kind,
                                !.transport = @ \/ a.kind = "transport"]
              y == [x EXCEPT !.polls = @ + 1, !.last_state = a.state,
                             !.last_description = a.description]
              branch == Classify(StateOf(a.state))
          IN  IF GetStatementStatus(a.kind).exc # "None"
              THEN Raised(c, x, GetStatementStatus(a.kind))
              ELSE IF branch = "succeeded"
              THEN /\ exec' = [y EXCEPT !.pc = "fetch"]
                   /\ UNCHANGED ret
              ELSE IF branch = "failed"
              THEN Raised(c, y, Raise("DatabaseError",
                                      <<"Statement execution failed: ",
                                        StatusDescription(a.description)>>))
              ELSE IF branch = "pending"
              THEN /\ exec' = [y EXCEPT !.sleeps = Append(@, exec.poll_interval),
                                        !.elapsed = Elapse(@, exec.poll_interval),
                                        !.poll_interval = NextInterval(@)]
                   /\ UNCHANGED ret
              ELSE Raised(c, y, Raise("DatabaseError",
                                      <<"Unknown statement state: ", StateOf(a.state)>>))

\* The loop condition fails, line 265
PollTimeout(c) ==
    /\ exec.pc = "poll"
    /\ exec.cur = c
    /\ ~KeepsPolling(exec.elapsed)
    /\ Raised(c, exec, Raise("OperationalError", <<"Statement execution timed out">>))
    /\ UNCHANGED <<conn, cursor, srv, aux>>

\* The poller calls _fetch_results, line 252, which sets up its locals,
\* lines 269-276.  The locals of _poll_for_results are not read again.
FetchResults(c) ==
    /\ exec.pc = "fetch"
    /\ exec.cur = c
    /\ exec' = [exec EXCEPT !.pc = "page",
                            !.elapsed = 0, !.poll_interval = 0, !.sleeps = <<>>,
                            !.polls = 0, !.last_state = Absent, !.last_kind = "none",
                            !.page_size = Max(1, cursor[c].arraysize),
                            !.offset = 0, !.has_description = FALSE,
                            !.rows = <<>>, !.total_rows = NoTotal]
    /\ UNCHANGED <<conn, cursor, srv, ret, aux>>

\* _fetch_results of cursor c is in its loop, line 278, within the number of
\* iterations that the model follows
InLoop(c) ==
    /\ exec.pc = "page"
    /\ exec.cur = c
    /\ exec.fetches < MaxFetches

\* One iteration of the pagination loop, lines 278-332, and the lines 334-336
\* after it when the loop ends.  The service picks the statement's result
\* at the first fetch, and its answer a to every fetch.
FetchPageWith(c, s, a) ==
    /\ UNCHANGED conn
    /\    LET status == StatusPage(s, a.variant, a.np, a.meta)
              asks == AsksResults(status)
              rpage == ResultsPage(s, exec.offset, exec.page_size,
                                   a.variant, a.np, a.meta)
              result == GetStatementResults(status, a.rkind, rpage)
              x == [exec EXCEPT !.fetches = @ + 1, !.last_kind = a.skind,
                                !.transport = @ \/ a.skind = "transport"]
              y == [x EXCEPT !.results_gets = IF asks THEN @ + 1 ELSE @,
                             !.transport = @ \/ (asks /\ a.rkind = "transport")]
              total_rows == PageTotal(exec.total_rows, result)
              description == PageDescription(cursor[c].description,
                                             exec.has_description, result)
              has_description == PageHasDescription(exec.has_description, result)
              data == DataOf(result)
              rows == exec.rows \o PageRows(data)
              fetched_this_page == Len(rows) - exec.offset
              offset == exec.offset + fetched_this_page
              z == [y EXCEPT !.total_rows = total_rows, !.rows = rows,
                             !.has_description = has_description]
              described == [cursor EXCEPT ![c].description = description]
              served == /\ a.variant = "slice"
                        /\ IF asks THEN a.rkind = "ok" ELSE TRUE
              t == [s EXCEPT !.honest = @ /\ served]
          IN  IF GetStatementStatus(a.skind).exc # "None"
              THEN /\ Raised(c, x, GetStatementStatus(a.skind))
                   /\ cursor' = cursor
                   /\ srv' = s
              ELSE IF PageRaises(data)
              THEN /\ Raised(c, [y EXCEPT !.total_rows = total_rows,
                                          !.has_description = has_description],
                             Raise("IndexError", <<"tuple index out of range">>))
                   /\ cursor' = described
                   /\ srv' = t
              ELSE IF NoProgress(fetched_this_page)
                      \/ StopsAfter(offset, total_rows, result.next_page)
              THEN /\ cursor' = [described EXCEPT ![c].rows = rows,
                                                  ![c].rowcount = Len(rows)]
                   /\ srv' = t
                   /\ LET w == [z EXCEPT !.offset = IF NoProgress(fetched_this_page)
                                                    THEN @ ELSE offset]
                      IN  IF exec.remaining > 0
                          THEN exec' = [w EXCEPT !.pc = "next"] /\ UNCHANGED ret
                          ELSE /\ exec' = [w EXCEPT !.pc = "idle"]
                               /\ ret' = Returned(exec.op, c, NoException, <<>>,
                                                  FALSE, w.sent)
              ELSE /\ cursor' = described
                   /\ exec' = [z EXCEPT !.offset = offset]
                   /\ srv' = t
                   /\ UNCHANGED ret

\* One iteration against any statement and answer of the service
FetchPage(c) ==
    /\ InLoop(c)
    /\ \E s \in IF srv.known THEN {srv} ELSE Statements : \E a \in PageAnswers(s) :
          FetchPageWith(c, s, a)
    /\ UNCHANGED aux

----------------------------------------------------------------------------
(* Calls that send nothing *)

\* A call of cursor c, with argument size, that completes at once
CompletesSized(op, c, e, value, none, size) ==
    /\ exec' = [Idle EXCEPT !.cur = c, !.op = op]
    /\ ret' = [Returned(op, c, e, value, none, FALSE) EXCEPT !.size = size]
    /\ srv' = NoStatement
    /\ UNCHANGED <<conn, aux>>

Completes(op, c, e, value, none) ==
    CompletesSized(op, c, e, value, none, NoSize)

\* The slice taken from the start of the buffer
SliceFromStart(rows, lo, hi) == SubSeq(rows, 1, Min(Max(hi, 0), Len(rows)))

\* self._rows[lo:hi] for 0 <= lo
Slice(rows, lo, hi) ==
    LET top == Min(Max(hi, lo), Len(rows))
        from == Min(lo, top)
    IN  SubSeq(rows, from + 1, top)

\* A fetchone that raises at the end of the data
FetchoneRaisesAtEnd(c) ==
    /\ exec.pc = "idle"
    /\ cursor[c].created
    /\ IF CursorCheckClosed(c).exc # "None"
       THEN Completes("fetchone", c, CursorCheckClosed(c), <<>>, FALSE) /\ cursor' = cursor
       ELSE IF cursor[c].row_index >= Len(cursor[c].rows)
       THEN Completes("fetchone", c, Raise("ProgrammingError", <<"No more rows">>),
                      <<>>, FALSE) /\ cursor' = cursor
       ELSE /\ Completes("fetchone", c, NoException,
                         <<cursor[c].rows[cursor[c].row_index + 1]>>, FALSE)
            /\ cursor' = [cursor EXCEPT
                  ![c].row_index = @ + 1,
                  ![c].returned = Append(@, cursor[c].rows[cursor[c].row_index + 1])]

\* cursor.fetchone()
Fetchone(c) ==
    /\ exec.pc = "idle"
    /\ cursor[c].created
    /\ IF CursorCheckClosed(c).exc # "None"
       THEN Completes("fetchone", c, CursorCheckClosed(c), <<>>, FALSE) /\ cursor' = cursor
       ELSE IF cursor[c].row_index >= Len(cursor[c].rows)
       THEN Completes("fetchone", c, NoException, <<>>, TRUE) /\ cursor' = cursor
       ELSE /\ Completes("fetchone", c, NoException,
                         <<cursor[c].rows[cursor[c].row_index + 1]>>, FALSE)
            /\ cursor' = [cursor EXCEPT
                  ![c].row_index = @ + 1,
                  ![c].returned = Append(@, cursor[c].rows[cursor[c].row_index + 1])]

\* cursor.fetchmany(size)
Fetchmany(c) ==
    /\ exec.pc = "idle"
    /\ cursor[c].created
    /\ \E given \in {NoSize} \cup 0..MaxArraysize :
          LET size == IF given = NoSize THEN cursor[c].arraysize ELSE given
              rows == Slice(cursor[c].rows, cursor[c].row_index,
                            cursor[c].row_index + size)
          IN  IF CursorCheckClosed(c).exc # "None"
              THEN CompletesSized("fetchmany", c, CursorCheckClosed(c), <<>>,
                                  FALSE, given)
                   /\ cursor' = cursor
              ELSE /\ CompletesSized("fetchmany", c, NoException, rows, FALSE, given)
                   /\ cursor' = [cursor EXCEPT ![c].row_index = @ + Len(rows),
                                               ![c].returned = @ \o rows]

\* cursor.fetchall()
Fetchall(c) ==
    /\ exec.pc = "idle"
    /\ cursor[c].created
    /\ IF CursorCheckClosed(c).exc # "None"
       THEN Completes("fetchall", c, CursorCheckClosed(c), <<>>, FALSE) /\ cursor' = cursor
       ELSE /\ Completes("fetchall", c, NoException,
                         Slice(cursor[c].rows, cursor[c].row_index, Len(cursor[c].rows)),
                         FALSE)
            /\ cursor' = [cursor EXCEPT
                  ![c].row_index = Len(cursor[c].rows),
                  ![c].returned = @ \o Slice(cursor[c].rows, cursor[c].row_index,
                                             Len(cursor[c].rows))]

\* next(cursor): Cursor.__next__
CursorNext(c) ==
    /\ exec.pc = "idle"
    /\ cursor[c].created
    /\ IF CursorCheckClosed(c).exc # "None"
       THEN Completes("next", c, CursorCheckClosed(c), <<>>, FALSE) /\ cursor' = cursor
       ELSE IF cursor[c].row_index >= Len(cursor[c].rows)
       THEN Completes("next", c, Raise("StopIteration", <<>>), <<>>, FALSE)
            /\ cursor' = cursor
       ELSE /\ Completes("next", c, NoException,
                         <<cursor[c].rows[cursor[c].row_index + 1]>>, FALSE)
            /\ cursor' = [cursor EXCEPT
                  ![c].row_index = @ + 1,
                  ![c].returned = Append(@, cursor[c].rows[cursor[c].row_index + 1])]

\* cursor.close()
CursorClose(c) ==
    /\ exec.pc = "idle"
    /\ cursor[c].created
    /\ Completes("close", c, NoException, <<>>, FALSE)
    /\ cursor' = [cursor EXCEPT ![c].closed = TRUE, ![c].rows = <<>>,
                                ![c].description = NoDescription,
                                ![c].returned = <<>>]

\* cursor.arraysize = value
SetArraysize(c) ==
    /\ exec.pc = "idle"
    /\ cursor[c].created
    /\ \E value \in 0..MaxArraysize :
          cursor' = [cursor EXCEPT ![c].arraysize = value]
    /\ Completes("arraysize", c, NoException, <<>>, FALSE)

\* connection.cursor(): c is the cursor a successful call returns
ConnCursor(c) ==
    /\ exec.pc = "idle"
    /\ ~cursor[c].created
    /\ IF ConnCheckClosed.exc # "None"
       THEN Completes("cursor", c, ConnCheckClosed, <<>>, FALSE) /\ cursor' = cursor
       ELSE /\ Completes("cursor", c, NoException, <<>>, FALSE)
            /\ cursor' = [cursor EXCEPT ![c] = NewCursor]

\* connection.close()
ConnClose ==
    /\ exec.pc = "idle"
    /\ conn' = [conn EXCEPT !.closed = TRUE]
    /\ exec' = [Idle EXCEPT !.op = "conn.close"]
    /\ ret' = [NoCall EXCEPT !.op = "conn.close"]
    /\ srv' = NoStatement
    /\ UNCHANGED <<cursor, aux>>

\* connection.commit() and connection.rollback()
ConnCommit ==
    /\ exec.pc = "idle"
    /\ \E op \in {"commit", "rollback"} :
          /\ exec' = [Idle EXCEPT !.op = op]
          /\ ret' = [NoCall EXCEPT !.op = op, !.exc = ConnCheckClosed.exc,
                                   !.msg = ConnCheckClosed.msg]
    /\ srv' = NoStatement
    /\ UNCHANGED <<conn, cursor, aux>>

----------------------------------------------------------------------------
(* The specification of one connection and the cursors in MainCursors *)

Init ==
    /\ conn = NewConnection
    /\ cursor = [c \in CursorIds |-> NotCreated]
    /\ exec = Idle
    /\ srv = NoStatement
    /\ ret = NoCall
    /\ mat = NoMat
    /\ bind = NoBind
    /\ auth = NoAuth
    /\ loop = NoLoop
    /\ prev = NotCreated
    /\ parked = NoParked

CursorStep(c) ==
    \/ ConnCursor(c)
    \/ Execute(c)
    \/ ExecuteMany(c)
    \/ ExecuteManyNext(c)
    \/ Poll(c)
    \/ PollTimeout(c)
    \/ FetchResults(c)
    \/ FetchPage(c)
    \/ Fetchone(c)
    \/ Fetchmany(c)
    \/ Fetchall(c)
    \/ CursorNext(c)
    \/ CursorClose(c)
    \/ SetArraysize(c)

\* The cursors of the specification Spec
MainCursors == {"c1"}

Next ==
    \/ \E c \in MainCursors : CursorStep(c)
    \/ ConnClose
    \/ ConnCommit

Spec == Init /\ [][Next]_vars

----------------------------------------------------------------------------
(* The poller alone: an execute is submitted and polled to its end *)

PollNext ==
    \E c \in MainCursors :
        \/ ConnCursor(c)
        \/ Execute(c)
        \/ Poll(c)
        \/ PollTimeout(c)
        \/ FetchResults(c)

\* The calling thread keeps running and every status request returns or
\* raises within the request timeout, so a loop iteration that can run does.
PollFairness == \A c \in MainCursors : WF_vars(Poll(c) \/ PollTimeout(c))

PollSpec == Init /\ [][PollNext]_vars /\ PollFairness

----------------------------------------------------------------------------
(* The buffer alone: the fetches on a cursor as an execute left it *)

\* The cursor after an execute that installed the n rows of a result
Buffered(n) ==
    [NewCursor EXCEPT !.rows = [i \in 1..n |-> Row(i)],
                      !.rowcount = n,
                      !.description = DescriptionOf(MetaOf(ResultNames)),
                      !.statement_handle = "h1"]

\* A cursor that never executed, or that buffered 0..MaxRows rows
FetchInit ==
    /\ conn = NewConnection
    /\ \E c1 \in {NewCursor} \cup { Buffered(n) : n \in 0..MaxRows } :
          cursor = [c \in CursorIds |-> IF c \in MainCursors THEN c1 ELSE NotCreated]
    /\ exec = Idle
    /\ srv = NoStatement
    /\ ret = NoCall
    /\ mat = NoMat
    /\ bind = NoBind
    /\ auth = NoAuth
    /\ loop = NoLoop
    /\ prev = NotCreated
    /\ parked = NoParked

FetchNext ==
    \E c \in MainCursors :
        \/ Fetchone(c)
        \/ Fetchmany(c)
        \/ Fetchall(c)
        \/ CursorNext(c)
        \/ SetArraysize(c)
        \/ CursorClose(c)

FetchSpec == FetchInit /\ [][FetchNext]_vars

----------------------------------------------------------------------------
(* Execute on a cursor that holds a result: one execute, from its call to
   its end, on a cursor that an earlier execute and fetches left *)

\* The cursor after an execute that installed n rows and fetches that
\* returned the first k of them
Held(n, k) ==
    [Buffered(n) EXCEPT !.row_index = k,
                        !.returned = [i \in 1..k |-> Row(i)]]

\* The same cursor after close(), lines 184-186
HeldClosed(n, k) ==
    [Held(n, k) EXCEPT !.closed = TRUE, !.rows = <<>>,
                       !.description = NoDescription, !.returned = <<>>]

MaxHeld == 2

HeldCursors ==
    UNION { {Held(n, 0), HeldClosed(n, 0), Held(n, n), HeldClosed(n, n)} :
                n \in 1..MaxHeld }

ReexecInit ==
    /\ conn = NewConnection
    /\ \E held \in HeldCursors :
          /\ cursor = [c \in CursorIds |->
                          IF c \in MainCursors THEN held ELSE NotCreated]
          /\ prev = held
    /\ parked = NoParked
    /\ exec = Idle
    /\ srv = NoStatement
    /\ ret = NoCall
    /\ mat = NoMat
    /\ bind = NoBind
    /\ auth = NoAuth
    /\ loop = NoLoop

\* The execute under study is the first call
ExecuteOnce(c) == ret = NoCall /\ Execute(c)

ReexecNext ==
    \E c \in MainCursors :
        \/ ExecuteOnce(c)
        \/ Poll(c)
        \/ PollTimeout(c)
        \/ FetchResults(c)
        \/ FetchPage(c)

ReexecSpec == ReexecInit /\ [][ReexecNext]_vars

----------------------------------------------------------------------------
(* Two cursors of one connection, each driven by its own caller; the
   callers' steps interleave *)

MaxPairPolls == 2
MaxPairFetches == 2

\* The results that the service holds for the two callers' statements: two
\* rows in row-oriented pages with their total for c1's, one row in
\* column-oriented pages without total for c2's, a row per page
PairStatement(c) ==
    IF c = "c1"
    THEN [NoStatement EXCEPT !.n = 2, !.total = 2, !.known = TRUE]
    ELSE [NoStatement EXCEPT !.n = 1, !.shape = "cols", !.known = TRUE]

\* One iteration of the pagination loop of cursor c against its statement
PairFetchPage(c) ==
    /\ InLoop(c)
    /\ \E a \in PageAnswers(PairStatement(c)) :
          FetchPageWith(c, IF srv.known THEN srv ELSE PairStatement(c), a)
    /\ UNCHANGED aux

\* The caller of cursor c is the one running
Running(c) == exec.cur = c

\* The running caller takes a step with its cursor: one execute, and
\* fetchone calls
PairStep(c) ==
    /\ Running(c)
    /\ \/ ret.op = "none" /\ Execute(c)
       \/ exec.polls < MaxPairPolls /\ Poll(c)
       \/ FetchResults(c)
       \/ exec.fetches < MaxPairFetches /\ PairFetchPage(c)
       \/ ret.op \in {"execute", "fetchone"} /\ Fetchone(c)

\* The scheduler lets the other caller run
Switch ==
    /\ parked' = [exec |-> exec, srv |-> srv, ret |-> ret]
    /\ exec' = parked.exec
    /\ srv' = parked.srv
    /\ ret' = parked.ret
    /\ UNCHANGED <<conn, cursor, mat, bind, auth, loop, prev>>

\* conn.cursor() was called twice
PairInit ==
    /\ conn = NewConnection
    /\ cursor = [c \in CursorIds |-> NewCursor]
    /\ exec = Idle
    /\ srv = NoStatement
    /\ ret = NoCall
    /\ mat = NoMat
    /\ bind = NoBind
    /\ auth = NoAuth
    /\ loop = NoLoop
    /\ prev = NotCreated
    /\ parked = NoParked

PairNext ==
    \/ \E c \in CursorIds : PairStep(c)
    \/ Switch

PairSpec == PairInit /\ [][PairNext]_vars

----------------------------------------------------------------------------
(* The pagination loop alone: _fetch_results from its first iteration on,
   with a record of what each iteration saw and decided *)

\* The page that the iteration reads, lines 279-281
PageResult(s, a) ==
    GetStatementResults(StatusPage(s, a.variant, a.np, a.meta), a.rkind,
                        ResultsPage(s, exec.offset, exec.page_size,
                                    a.variant, a.np, a.meta))

\* The names of a list of column entries, col<i> for an entry without name
ColumnNames(cols) ==
    [i \in 1..Len(cols) |-> IF cols[i].has_name THEN cols[i].name
                            ELSE DefaultNames[i]]

\* The column names that a page carries: those of its column metadata when
\* it has some, else those of the entries of a column-oriented payload
NamesCarried(result) ==
    IF ColumnsMeta(result) # <<>> THEN ColumnNames(ColumnsMeta(result))
    ELSE IF DataOf(result) # <<>> /\ IsColumnar(DataOf(result))
         THEN ColumnNames(DataOf(result))
    ELSE <<>>

\* The page that the iteration got, none when the status request failed
PageRead(s, a) ==
    IF GetStatementStatus(a.skind).exc # "None" THEN BarePage
    ELSE PageResult(s, a)

\* One iteration of the loop, observed: fetched_this_page of line 320, the
\* offset of line 325, total_rows, result.get("next_page"), and whether the
\* loop was left
LoopPage(c) ==
    /\ InLoop(c)
    /\ \E s \in IF srv.known THEN {srv} ELSE Statements : \E a \in PageAnswers(s) :
          /\ FetchPageWith(c, s, a)
          /\ loop' = [seen |-> TRUE,
                      raised |-> ret'.exc \notin {"None", "InFlight"},
                      fetched_this_page |-> Len(exec'.rows) - exec.offset,
                      offset |-> Len(exec'.rows),
                      total_rows |-> exec'.total_rows,
                      next_page |-> PageResult(s, a).next_page,
                      stopped |-> exec'.pc # "page",
                      first |-> IF loop.first # <<>> THEN loop.first
                                ELSE NamesCarried(PageRead(s, a)),
                      last |-> NamesCarried(PageRead(s, a))]
    /\ UNCHANGED <<mat, bind, auth, prev, parked>>

\* execute(sql) of a new cursor with arraysize a, when the poller has seen
\* the statement succeed and _fetch_results has set up its locals
Paginating(a) ==
    [Idle EXCEPT !.pc = "page", !.op = "execute", !.sent = TRUE,
                 !.page_size = Max(1, a)]

PageInit ==
    /\ conn = NewConnection
    /\ \E a \in 1..MaxArraysize :
          /\ cursor = [c \in CursorIds |->
                          IF c = Idle.cur
                          THEN [NewCursor EXCEPT !.created = TRUE, !.arraysize = a,
                                                 !.statement_handle = "h1"]
                          ELSE NotCreated]
          /\ exec = Paginating(a)
    /\ srv = NoStatement
    /\ ret = InFlight("execute", Idle.cur)
    /\ mat = NoMat
    /\ bind = NoBind
    /\ auth = NoAuth
    /\ loop = NoLoop
    /\ prev = NotCreated
    /\ parked = NoParked

PageNext == \E c \in MainCursors : LoopPage(c)

PageSpec == PageInit /\ [][PageNext]_vars

----------------------------------------------------------------------------
(* Credential resolution: Cursor.__init__, lines 113-159, for the cursors  *)
(* of one connection, created by threads that may interleave               *)

\* bool(x) of a credential or token
Truthy(x) == x \notin {NoToken, ""}

\* Connection.__init__, lines 438-440: the header of the new session
SessionHeader(token) == IF Truthy(token) THEN Bearer(token) ELSE NoHeader

Tokens == {"t1", "t2"}
Fields == {NoToken, ""} \cup Tokens

\* The JSON object of a token response
TokenBodies ==
    { [access_token |-> a, token |-> t, jwt |-> j] : a \in Fields, t \in Fields, j \in Fields }

NoBody == [access_token |-> NoToken, token |-> NoToken, jwt |-> NoToken]

\* What the token endpoint does: the transport fails, an HTTP error status,
\* an empty response text, a text that is no JSON, a JSON value that is no
\* object, or a JSON object
TokenAnswers ==
    { [kind |-> k, body |-> NoBody] :
        k \in {"transport", "http", "empty", "badjson", "nondict"} }
    \cup { [kind |-> "ok", body |-> b] : b \in TokenBodies }

\* The exception lines 142-145 raise on the answer, "None" if none
RaisedBy(kind) ==
    IF kind \in {"transport", "http"} THEN "RequestException"
    ELSE IF kind = "badjson" THEN "ValueError"
    ELSE IF kind = "nondict" THEN "AttributeError"
    ELSE "None"

\* A handler for the failures of the request alone
CaughtIfRequestException(e) == e = "RequestException"

\* except requests.exceptions.RequestException ... except Exception, lines 154-159
Caught(e) == e = "RequestException" \/ e # "None"

\* body.get("access_token") or body.get("token") or body.get("jwt")
TokenOf(body) ==
    IF Truthy(body.access_token) THEN body.access_token
    ELSE IF Truthy(body.token) THEN body.token
    ELSE body.jwt

\* A failure that removes the header
HeaderDropped(header) == NoHeader

\* The session header after a resolution that gave up: the handlers of lines
\* 154-159 assign self._jwt_token alone
HeaderAfterFailure(header) == header

\* A request carrying the token of the cursor that sends it
CarriedOwnToken(c) ==
    IF Truthy(auth.cur[c].jwt_token) THEN Bearer(auth.cur[c].jwt_token) ELSE NoHeader

\* The Authorization header of a request sent on the shared session
Carried(c) == auth.header

\* The request that cursor c sends now
RequestBy(c, kind) ==
    [kind |-> kind, by |-> c, carried |-> Carried(c), nwrites |-> Len(auth.writes)]

AuthUnchanged == UNCHANGED <<conn, cursor, exec, srv, ret, mat, bind, loop, prev, parked>>

\* Lines 100-118: the fields, and the test of the credentials
AuthBegin(c) ==
    /\ auth.cur[c].pc = "none"
    /\ auth' = [auth EXCEPT
          !.cur[c].pc = IF Truthy(auth.username) /\ Truthy(auth.secret)
                        THEN "post" ELSE "done"]
    /\ AuthUnchanged

\* Lines 140-145 and the handlers: the token request and its answer
AuthPost(c) ==
    /\ auth.cur[c].pc = "post"
    /\ \E a \in TokenAnswers :
          LET e == RaisedBy(a.kind)
              token == IF a.kind = "ok" THEN TokenOf(a.body) ELSE NoToken
              sent == [auth EXCEPT !.request = RequestBy(c, "token"),
                                   !.cur[c].posts = @ + 1]
          IN  auth' =
                IF e # "None" /\ ~Caught(e)
                THEN [sent EXCEPT !.cur[c].pc = "raised", !.cur[c].raised = TRUE]
                ELSE IF e # "None" \/ ~Truthy(token)
                THEN [sent EXCEPT !.cur[c].pc = "done",
                                  !.cur[c].jwt_token = NoToken,
                                  !.cur[c].failed = TRUE,
                                  !.header = HeaderAfterFailure(@)]
                ELSE [sent EXCEPT !.cur[c].pc = "store", !.cur[c].token = token]
    /\ AuthUnchanged

\* Line 147: self._jwt_token = token
AuthStore(c) ==
    /\ auth.cur[c].pc = "store"
    /\ auth' = [auth EXCEPT !.cur[c].pc = "header",
                            !.cur[c].jwt_token = auth.cur[c].token]
    /\ AuthUnchanged

\* Line 150: the session's Authorization header becomes Bearer <token>
AuthHeader(c) ==
    /\ auth.cur[c].pc = "header"
    /\ auth' = [auth EXCEPT !.cur[c].pc = "done",
                            !.header = Bearer(auth.cur[c].token),
                            !.writes = Append(@, auth.cur[c].token)]
    /\ AuthUnchanged

\* A request of a created cursor on the session: a submission, a status or a
\* results request
AuthRequest(c) ==
    /\ auth.cur[c].pc = "done"
    /\ auth' = [auth EXCEPT !.request = RequestBy(c, "data")]
    /\ AuthUnchanged

Credentials == {NoToken, "", "user"}
Secrets == {NoToken, "", "secret"}

\* connect(username=..., token=...)
AuthInit ==
    /\ conn = NewConnection
    /\ cursor = [c \in CursorIds |-> NotCreated]
    /\ exec = Idle
    /\ srv = NoStatement
    /\ ret = NoCall
    /\ mat = NoMat
    /\ bind = NoBind
    /\ loop = NoLoop
    /\ prev = NotCreated
    /\ parked = NoParked
    /\ \E u \in Credentials, t \in Secrets :
          auth = [NoAuth EXCEPT !.username = u, !.secret = t,
                                !.header = SessionHeader(t)]

AuthNext ==
    \E c \in CursorIds :
        \/ AuthBegin(c)
        \/ AuthPost(c)
        \/ AuthStore(c)
        \/ AuthHeader(c)
        \/ AuthRequest(c)

AuthSpec == AuthInit /\ [][AuthNext]_vars

----------------------------------------------------------------------------
(* The materializer alone: the first iteration of the loop of              *)
(* Cursor._fetch_results, lines 290-318, applied to one JSON page          *)

MatNames == <<"id", "name", "kind", "size">>

\* Value i of column j: column "id" holds 1, 2, ..; column "name" 11, 12, ..
MatCell(j, i) == 10 * (j - 1) + i

\* One record per column; lens[j] is the number of values of column j
MatRecords(lens, named) ==
    [j \in 1..Len(lens) |->
        LET values == [i \in 1..lens[j] |-> MatCell(j, i)]
        IN  IF named THEN ColRec(MatNames[j], values) ELSE Unnamed(values)]

\* The same table as a list of rows, as long as the first column
MatRowLists(lens) ==
    [i \in 1..lens[1] |-> RowList([j \in 1..Len(lens) |-> MatCell(j, i)])]

Lengths == UNION { [1..k -> 0..MaxValues] : k \in 1..MaxCols }

\* What the "columns" key holds: nothing, metadata without values, or
\* column records; what the "data" key holds: nothing, an empty list,
\* column records, or rows.
ColumnsKinds == {"absent", "meta", "records"}
DataKinds == {"absent", "empty", "records", "rows"}

MatPage(lens, named, columns, data) ==
    JsonPage(FALSE, 0,
             columns # "absent",
             IF columns = "meta" THEN MetaOf(SubSeq(MatNames, 1, Len(lens)))
             ELSE IF columns = "records" THEN MatRecords(lens, named)
             ELSE <<>>,
             data # "absent",
             IF data = "records" THEN MatRecords(lens, named)
             ELSE IF data = "rows" THEN MatRowLists(lens)
             ELSE <<>>,
             FALSE)

MatInputs ==
    { [lens |-> l, named |-> nm, columns |-> ck, data |-> dk] :
        l \in Lengths, nm \in BOOLEAN, ck \in ColumnsKinds, dk \in DataKinds }

MatInit ==
    /\ conn = NewConnection
    /\ cursor = [c \in CursorIds |-> NotCreated]
    /\ exec = Idle
    /\ srv = NoStatement
    /\ ret = NoCall
    /\ \E in \in MatInputs :
          mat = [NoMat EXCEPT !.page = [in |-> in,
                     json |-> MatPage(in.lens, in.named, in.columns, in.data)]]
    /\ bind = NoBind
    /\ auth = NoAuth
    /\ loop = NoLoop
    /\ prev = NotCreated
    /\ parked = NoParked

\* Lines 290-318 on a fresh cursor: description and rows of the page
Materialize ==
    /\ ~mat.done
    /\ LET result == mat.page.json
           data == DataOf(result)
       IN  mat' = [mat EXCEPT
                     !.description = PageDescription(NoDescription, FALSE, result),
                     !.raised = PageRaises(data),
                     !.rows = IF PageRaises(data) THEN <<>> ELSE PageRows(data),
                     !.done = TRUE]
    /\ UNCHANGED <<conn, cursor, exec, srv, ret, bind, auth, loop, prev, parked>>

MatNext == Materialize

MatSpec == MatInit /\ [][MatNext]_vars

----------------------------------------------------------------------------
(* The parameter conversion alone: Cursor.execute, lines 213-223, and the  *)
(* body Connection._submit_statement builds from its result, lines 482-485. *)
(* A text is the sequence of its characters.                                *)

Digits == <<"0", "1", "2", "3", "4", "5", "6", "7", "8", "9">>

\* str(i) for i >= 0
RECURSIVE Decimal(_)
Decimal(i) ==
    IF i < 10 THEN <<Digits[i + 1]>>
    ELSE Decimal(i \div 10) \o <<Digits[(i % 10) + 1]>>

\* f"p{i}"
PName(i) == <<"p">> \o Decimal(i)

\* f":p{i}"
Placeholder(i) == <<":">> \o PName(i)

\* text.replace(old, new) for a one-character old: every occurrence
RECURSIVE ReplaceEvery(_, _, _)
ReplaceEvery(text, old, new) ==
    IF text = <<>> THEN <<>>
    ELSE (IF Head(text) = old THEN new ELSE <<Head(text)>>)
         \o ReplaceEvery(Tail(text), old, new)

\* text.replace(old, new, 1) for a one-character old: the first occurrence
ReplaceFirst(text, old, new) ==
    LET found == {j \in 1..Len(text) : text[j] = old}
    IN  IF found = {} THEN text
        ELSE LET j == CHOOSE x \in found : \A y \in found : x <= y
             IN  SubSeq(text, 1, j - 1) \o new \o SubSeq(text, j + 1, Len(text))

\* for i in range(len(parameters)): operation = operation.replace("?", f":p{i}", 1)
RECURSIVE Rewrite(_, _, _)
Rewrite(operation, i, n) ==
    IF i >= n THEN operation
    ELSE Rewrite(ReplaceFirst(operation, "?", Placeholder(i)), i + 1, n)

\* {f"p{i}": v for i, v in enumerate(parameters)}
EnumerateParameters(args) == { <<PName(i - 1), args[i]>> : i \in 1..Len(args) }

\* Lines 213-223: the text and the params_dict handed to _submit_statement
ConvertParameters(operation, parameters) ==
    IF parameters.kind = "none"
    THEN [sql |-> operation, params_none |-> TRUE, params_dict |-> {}]
    ELSE IF parameters.kind = "dict"
    THEN [sql |-> operation, params_none |-> FALSE, params_dict |-> parameters.items]
    ELSE [sql |-> Rewrite(operation, 0, Len(parameters.args)),
          params_none |-> FALSE,
          params_dict |-> EnumerateParameters(parameters.args)]

\* Lines 482-485: payload = {"sqlText": sql}; if parameters: payload["parameters"] = ...
SubmitPayload(sql, params_none, params_dict) ==
    LET truthy == ~params_none /\ params_dict # {}
    IN  [sqlText |-> sql, has_parameters |-> truthy,
         parameters |-> IF truthy THEN params_dict ELSE {}]

TextChars == {"?", "x", ":"}
Texts == UNION { [1..n -> TextChars] : n \in 0..MaxText }
ArgValues == {"Earth", "Mars"}
ArgLists == UNION { [1..n -> ArgValues] : n \in 0..MaxArgs }
Mappings == { {}, {<<"name", "Earth">>}, {<<"name", "Earth">>, <<"id", "Mars">>} }

ParameterInputs ==
    {NoParameters} \cup { Mapping(m) : m \in Mappings }
                   \cup { Positional(a) : a \in ArgLists }

BindInit ==
    /\ conn = NewConnection
    /\ cursor = [c \in CursorIds |-> NotCreated]
    /\ exec = Idle
    /\ srv = NoStatement
    /\ ret = NoCall
    /\ mat = NoMat
    /\ \E t \in Texts, p \in ParameterInputs :
          bind = [NoBind EXCEPT !.operation = t, !.parameters = p]
    /\ auth = NoAuth
    /\ loop = NoLoop
    /\ prev = NotCreated
    /\ parked = NoParked

\* execute(operation, parameters) up to the body of the submission
Convert ==
    /\ ~bind.done
    /\ LET c == ConvertParameters(bind.operation, bind.parameters)
       IN  bind' = [bind EXCEPT
                      !.sql = c.sql,
                      !.params_none = c.params_none,
                      !.params_dict = c.params_dict,
                      !.payload = SubmitPayload(c.sql, c.params_none, c.params_dict),
                      !.done = TRUE]
    /\ UNCHANGED <<conn, cursor, exec, srv, ret, mat, auth, loop, prev, parked>>

BindNext == Convert

BindSpec == BindInit /\ [][BindNext]_vars

----------------------------------------------------------------------------
(* Claims *)

ExecOps == {"execute", "executemany"}

\* The call in flight has returned or raised
Ended == exec.pc = "idle"

\* The last status request of the poller was answered, with a state in S
\* (Absent: with no state)
LastPolled(S) ==
    /\ exec.polls > 0
    /\ exec.last_kind = "ok"
    /\ exec.last_state \in S

KnownStates == SucceededStates \cup FailedStates \cup PendingStates
AnyState == ServerStates \cup {Absent}

\* min(0.5 * 1.5^i, 5.0), in time units; 0.5 * 1.5^i > 5.0 from i = 6 on
ExpectedSleep(i) ==
    IF i <= 12 THEN Min((Scale * 3 ^ i) \div 2 ^ (i + 1), 5 * Scale)
    ELSE 5 * Scale

\* C1: the i-th sleep of the poller (i = 0, 1, ...) lasts min(0.5 * 1.5^i, 5.0);
\* after k pending polls exactly k sleeps have happened; and once a poll is
\* classified as terminal (succeeded, failed or unknown) the loop has been
\* left with just those k sleeps: no sleep and no poll follows it.
C1_BackoffAndStop ==
    /\ \A i \in 1..Len(exec.sleeps) : exec.sleeps[i] = ExpectedSleep(i - 1)
    /\ LastPolled(PendingStates) => Len(exec.sleeps) = exec.polls
    /\ LastPolled(AnyState \ PendingStates) =>
          /\ exec.pc # "poll"
          /\ Len(exec.sleeps) = exec.polls - 1

\* Seven pending polls, so that the cap is reached, then a terminal state
C1_Witness ==
    /\ LastPolled(SucceededStates)
    /\ exec.polls = 8
    /\ exec.sleeps[7] = 5 * Scale
    /\ exec.sleeps[6] < 5 * Scale

\* C9: a poll whose state is FAILED, ERROR or CANCELLED ends the call with a
\* DatabaseError carrying the server's description, a poll whose state is
\* missing or outside the three groups ends it with a DatabaseError naming
\* the state; after either the call has ended, with one sleep per earlier
\* poll and no page fetch.
C9_FailedAndUnknown ==
    /\ LastPolled(FailedStates) =>
          /\ Ended
          /\ ret.exc = "DatabaseError"
          /\ ret.msg = <<"Statement execution failed: ",
                         IF exec.last_description = Absent THEN "Unknown error"
                         ELSE exec.last_description>>
          /\ Len(exec.sleeps) = exec.polls - 1
          /\ exec.fetches = 0 /\ exec.results_gets = 0
    /\ LastPolled(AnyState \ KnownStates) =>
          /\ Ended
          /\ ret.exc = "DatabaseError"
          /\ ret.msg = <<"Unknown statement state: ",
                         IF exec.last_state = Absent THEN "UNKNOWN"
                         ELSE exec.last_state>>
          /\ Len(exec.sleeps) = exec.polls - 1
          /\ exec.fetches = 0 /\ exec.results_gets = 0

\* A CANCELLED statement with a description, after two pending polls
C9_Witness ==
    /\ Ended
    /\ exec.polls = 3
    /\ exec.last_kind = "ok"
    /\ exec.last_state = "CANCELLED"
    /\ exec.last_description = "boom"
    /\ ret.msg = <<"Statement execution failed: ", "boom">>

RECURSIVE SumSeq(_)
SumSeq(q) == IF q = <<>> THEN 0 ELSE q[1] + SumSeq(Tail(q))

\* The call ended by the deadline: a timeout OperationalError, raised when the
\* cumulative sleep first reached 300, with no page fetched
TimedOut ==
    /\ ret.exc = "OperationalError"
    /\ ret.msg = <<"Statement execution timed out">>
    /\ SumSeq(exec.sleeps) >= MaxWait
    /\ SumSeq(exec.sleeps) - exec.sleeps[Len(exec.sleeps)] < MaxWait
    /\ exec.fetches = 0 /\ exec.results_gets = 0

\* C2: the polling loop always comes to an end, and no sleep starts once the
\* cumulative sleep has reached the 300-unit deadline; when every status
\* poll was answered with a pending state the call ends with the timeout
\* OperationalError, raised once the deadline is reached, without any page
\* fetch.
C2_TimeoutNeverHangs ==
    /\ [](Ended /\ LastPolled(PendingStates) => TimedOut)
    /\ [](exec.sleeps # <<>> =>
              SumSeq(exec.sleeps) - exec.sleeps[Len(exec.sleeps)] < MaxWait)
    /\ (exec.pc = "poll") ~> (exec.pc # "poll")

\* The deadline was reached by pending polls alone
C2_Witness ==
    /\ Ended
    /\ LastPolled(PendingStates)
    /\ ret.exc = "OperationalError"
    /\ exec.elapsed >= MaxWait

\* An execute went through pagination and returned normally
Succeeded ==
    /\ exec.op \in ExecOps
    /\ exec.fetches > 0
    /\ \/ exec.pc = "idle" /\ ret.exc = "None"
       \/ exec.pc = "next"

\* The rows 1..n of the result, in server order
ResultRows(n) == [i \in 1..n |-> Row(i)]

CeilDiv(a, b) == (a + b - 1) \div b

\* The rows the service puts in a page of statement s for this execute
RowsPerPage(s) ==
    IF s.embedded THEN s.limit ELSE Min(s.limit, exec.page_size)

\* The service served every page fetch of the execute with the page's rows
\* and reported total_rows = N >= 1
ServedWithTotal ==
    /\ srv.known /\ srv.honest
    /\ srv.n >= 1
    /\ srv.total = srv.n

\* C3: pagination of a result of N rows served p rows a page, with
\* total_rows = N reported, makes exactly ceil(N/p) page fetches and leaves
\* exactly the N rows in the cursor, in server order, whether the page is
\* embedded in the status response or comes from the results endpoint.
C3_ExactPagination ==
    Succeeded /\ ServedWithTotal =>
        /\ exec.fetches = CeilDiv(srv.n, RowsPerPage(srv))
        /\ cursor[exec.cur].rows = ResultRows(srv.n)

\* The same for pages that come from the results endpoint only
C3_ResultsEndpoint ==
    Succeeded /\ ServedWithTotal /\ ~srv.embedded =>
        /\ exec.fetches = CeilDiv(srv.n, RowsPerPage(srv))
        /\ cursor[exec.cur].rows = ResultRows(srv.n)

C3_ResultsEndpointWitness ==
    /\ Succeeded /\ ServedWithTotal /\ ~srv.embedded
    /\ srv.n = 3 /\ RowsPerPage(srv) = 2 /\ exec.fetches = 2

\* C4: a page fetch that adds no row to the local list and does not raise
\* ends pagination at once, whatever total_rows and next_page it reports:
\* the call returns (or executemany goes on to its next statement) and the
\* rows collected before it are the cursor's result.
C4_ZeroRowPageStops ==
    [][ ( /\ exec.pc = "page"
          /\ exec'.fetches = exec.fetches + 1
          /\ ret'.exc \in {"None", "InFlight"}
          /\ Len(exec'.rows) = Len(exec.rows) )
        => ( /\ exec'.pc \in {"idle", "next"}
             /\ exec'.fetches = exec.fetches + 1
             /\ cursor'[exec.cur].rows = exec.rows
             /\ cursor'[exec.cur].rowcount = Len(exec.rows) ) ]_vars

\* Pagination ended below the reported total with some rows collected:
\* only a page without rows ends it there
C4_Witness ==
    /\ Succeeded
    /\ srv.known /\ srv.total = srv.n /\ ~srv.embedded
    /\ exec.total_rows = srv.n
    /\ cursor[exec.cur].rows # <<>>
    /\ Len(cursor[exec.cur].rows) < srv.n
    /\ exec.fetches = 2

\* C5: a call of execute, executemany, fetchone, fetchmany or fetchall on a
\* closed cursor, and a call of cursor(), commit, rollback or of execute on a
\* cursor of a closed connection, raises ProgrammingError and sends no
\* request.
C5_ClosedRaises ==
    /\ \A c \in CursorIds :
          ( /\ cursor[c].created /\ cursor[c].closed
            /\ ret.cur = c
            /\ ret.op \in {"execute", "executemany", "fetchone", "fetchmany", "fetchall"} )
          => ( /\ Ended
               /\ ret.exc = "ProgrammingError"
               /\ ret.msg = <<"Cursor is closed">>
               /\ ~ret.sent )
    /\ ( conn.closed /\ ret.op \in {"cursor", "commit", "rollback", "execute"} )
       => ( /\ Ended
            /\ ret.exc = "ProgrammingError"
            /\ ~ret.sent )

\* An execute on an open cursor of a closed connection
C5_Witness ==
    /\ conn.closed
    /\ ret.op = "execute"
    /\ ~cursor[ret.cur].closed
    /\ ret.exc = "ProgrammingError"
    /\ ret.msg = <<"Connection is closed">>

\* C6: after Connection.close, no fetchone, fetchmany, fetchall or next on a
\* cursor of the connection that is still open silently succeeds and
\* returns buffered rows.
C6_ConnCloseInvalidatesCursors ==
    \A c \in CursorIds :
        ( /\ conn.closed
          /\ cursor[c].created /\ ~cursor[c].closed
          /\ ret.cur = c
          /\ ret.op \in {"fetchone", "fetchmany", "fetchall", "next"} )
        => ret.value = <<>>

\* C7: in every state the caller observes, a cursor has a description only
\* if its last execute installed its whole result in the buffer: no failure
\* of a page fetch leaves a description with an empty or partial buffer.
C7_PopulatedTogether ==
    Ended =>
        \A c \in CursorIds :
            cursor[c].description # NoDescription =>
                /\ cursor[c].rowcount >= 0
                /\ cursor[c].rowcount = Len(cursor[c].rows)

\* C8: an execute one of whose requests failed in the transport raises
\* OperationalError.
C8_TransportFailureRaises ==
    ( exec.op \in ExecOps /\ exec.transport /\ exec.pc \in {"idle", "next"} )
    => ( Ended /\ ret.exc = "OperationalError" )

\* The names of a description, in order
NamesOf(description) == [i \in 1..Len(description) |-> description[i][1]]

\* All columns as long as the first
EqualLengths(lens) == \A j \in 1..Len(lens) : lens[j] = lens[1]

\* n rows, row i holding value i of each of the k columns in column order
Transposed(n, k) == [i \in 1..n |-> [j \in 1..k |-> MatCell(j, i)]]

\* C10 as the specification states it: a page whose column records (name and
\* values) are under the columns key, with no data payload, yields one row
\* per value index holding value i of each column in column order, and the
\* description is the column names in order.
C10_ColumnsRecordsMaterialized ==
    ( /\ mat.done
      /\ mat.page.in.columns = "records" /\ mat.page.in.data = "absent"
      /\ mat.page.in.named
      /\ EqualLengths(mat.page.in.lens) )
    => ( /\ ~mat.raised
         /\ mat.rows = Transposed(mat.page.in.lens[1], Len(mat.page.in.lens))
         /\ NamesOf(mat.description) = SubSeq(MatNames, 1, Len(mat.page.in.lens)) )

\* C10: k column records of equal length n carried in the data payload yield
\* n rows, row i holding value i of each column in column order; the
\* description is the names of the columns metadata when the page has some,
\* and else the names of the records in order, col<i> for a record without
\* name.
C10_DataRecordsMaterialized ==
    ( /\ mat.done
      /\ mat.page.in.data = "records"
      /\ EqualLengths(mat.page.in.lens) )
    => LET k == Len(mat.page.in.lens)
       IN  /\ ~mat.raised
           /\ mat.rows = Transposed(mat.page.in.lens[1], k)
           /\ Len(mat.description) = k
           /\ \A i \in 1..k : Len(mat.description[i]) = 7
           /\ NamesOf(mat.description) =
                 IF mat.page.in.columns = "meta" \/ mat.page.in.named
                 THEN SubSeq(MatNames, 1, k)
                 ELSE SubSeq(DefaultNames, 1, k)

\* {data: [{name: "id", values: [1, 2]}, {name: "name", values: [11, 12]}]}
C10_Witness ==
    /\ mat.done
    /\ mat.page.in = [lens |-> <<2, 2>>, named |-> TRUE,
                      columns |-> "absent", data |-> "records"]
    /\ mat.rows = << <<1, 11>>, <<2, 12>> >>
    /\ NamesOf(mat.description) = <<"id", "name">>

\* The column-oriented encoding of the table of n rows and k columns: one
\* named record per column in the data payload
ColumnEncoding(n, k) == MatPage([j \in 1..k |-> n], TRUE, "absent", "records")

\* C11: a row-oriented page, data being a list of rows and the columns
\* metadata listing the names, yields one tuple per data element, in order,
\* with the element's values in order, and a description of the metadata
\* names in order: the rows and the description that the column-oriented
\* encoding of the same table yields.
C11_RowOrientedSameAsColumnar ==
    ( /\ mat.done
      /\ mat.page.in.data = "rows" /\ mat.page.in.columns = "meta" )
    => LET k == Len(mat.page.in.lens)
           n == mat.page.in.lens[1]
           columnar == ColumnEncoding(n, k)
       IN  /\ ~mat.raised
           /\ Len(mat.rows) = Len(mat.page.json.data)
           /\ \A i \in 1..Len(mat.rows) : mat.rows[i] = mat.page.json.data[i].values
           /\ mat.rows = Transposed(n, k)
           /\ NamesOf(mat.description) = SubSeq(MatNames, 1, k)
           /\ mat.rows = PageRows(DataOf(columnar))
           /\ mat.description = PageDescription(NoDescription, FALSE, columnar)

\* {data: [[1, 11], [2, 12]], columns: [{name: "id"}, {name: "name"}]}
C11_Witness ==
    /\ mat.done
    /\ mat.page.in = [lens |-> <<2, 2>>, named |-> TRUE,
                      columns |-> "meta", data |-> "rows"]
    /\ mat.rows = << <<1, 11>>, <<2, 12>> >>
    /\ NamesOf(mat.description) = <<"id", "name">>

\* The number of '?' among the first j characters of text
Marks(text, j) == Cardinality({i \in 1..j : text[i] = "?"})

\* The names p0, p1, ... as the claim writes them
BoundNames == << <<"p", "0">>, <<"p", "1">>, <<"p", "2">>, <<"p", "3">> >>

\* text with the i-th '?' from the left (i = 0, 1, ...) replaced by ':p<i>'
\* for each i < n, every other character unchanged
RECURSIVE MarksBound(_, _, _)
MarksBound(text, j, n) ==
    IF j > Len(text) THEN <<>>
    ELSE (IF text[j] = "?" /\ Marks(text, j) <= n
          THEN <<":">> \o BoundNames[Marks(text, j)]
          ELSE <<text[j]>>)
         \o MarksBound(text, j + 1, n)

\* C12: for a non-mapping sequence of n positional arguments and a text with
\* m >= n '?', the mapping handed to the submission is exactly
\* {p0: arg0, ..., p(n-1): arg(n-1)} and the submitted text is the text with
\* the i-th '?' from the left replaced by ':p<i>' for each i < n, all else
\* unchanged; a mapping is handed on verbatim with the text as it was.  The
\* body of the submission carries the text, and the mapping when it has an
\* entry.
C12_PositionalToNamed ==
    bind.done =>
        LET text == bind.operation
            args == bind.parameters.args
            n == Len(args)
        IN  /\ ( bind.parameters.kind = "seq" /\ Marks(text, Len(text)) >= n ) =>
                  /\ ~bind.params_none
                  /\ bind.params_dict = { <<BoundNames[i], args[i]>> : i \in 1..n }
                  /\ bind.sql = MarksBound(text, 1, n)
                  /\ Marks(bind.sql, Len(bind.sql)) = Marks(text, Len(text)) - n
            /\ bind.parameters.kind = "dict" =>
                  /\ ~bind.params_none
                  /\ bind.params_dict = bind.parameters.items
                  /\ bind.sql = text
            /\ bind.payload.sqlText = bind.sql
            /\ bind.payload.has_parameters = (bind.params_dict # {})
            /\ bind.payload.has_parameters =>
                  bind.payload.parameters = bind.params_dict

\* ("Earth", "Mars") against "x?x?": {p0: Earth, p1: Mars} and "x:p0x:p1"
C12_Witness ==
    /\ bind.done
    /\ bind.operation = <<"x", "?", "x", "?">>
    /\ bind.parameters = Positional(<<"Earth", "Mars">>)
    /\ bind.sql = <<"x", ":", "p", "0", "x", ":", "p", "1">>
    /\ bind.payload.parameters = { <<<<"p", "0">>, "Earth">>, <<<<"p", "1">>, "Mars">> }

\* The fetches that return rows
FetchOps == {"fetchone", "fetchmany", "fetchall"}

\* C13: a fetchone on an open cursor whose rows are all consumed, or that
\* never executed, returns None without raising and leaves the cursor, its
\* position and buffer, as it was: so does every fetchone after it.
C13_EndOfDataIdempotent ==
    [][ \A c \in CursorIds :
          ( /\ exec.pc = "idle"
            /\ ret'.op = "fetchone" /\ ret'.cur = c
            /\ cursor[c].created /\ ~cursor[c].closed
            /\ cursor[c].row_index >= Len(cursor[c].rows) )
          => ( /\ ret'.exc = "None"
               /\ ret'.none /\ ret'.value = <<>>
               /\ cursor' = cursor
               /\ cursor'[c].row_index >= Len(cursor'[c].rows) ) ]_vars

\* A fetchone returned None after the three buffered rows were consumed
C13_Witness ==
    /\ ret.op = "fetchone" /\ ret.exc = "None" /\ ret.none
    /\ ~cursor[ret.cur].closed
    /\ Len(cursor[ret.cur].rows) = 3
    /\ cursor[ret.cur].row_index = 3
    /\ cursor[ret.cur].returned = cursor[ret.cur].rows

\* C14: on an open cursor the read position stays within 0..|R| and the rows
\* handed out since the execute are the first row_index rows of R, in order;
\* a fetch returns the rows from the position it found up to the position
\* it leaves: one row or None for fetchone, min(n, rows left) rows for
\* fetchmany(n), n being arraysize when no size is given, and all the rows
\* left for fetchall.
C14_FetchesConsecutive ==
    /\ \A c \in CursorIds :
          ( cursor[c].created /\ ~cursor[c].closed ) =>
              /\ cursor[c].row_index \in 0..Len(cursor[c].rows)
              /\ cursor[c].returned = SubSeq(cursor[c].rows, 1, cursor[c].row_index)
    /\ ( ret.op \in FetchOps /\ ret.exc = "None" ) =>
          LET cur == cursor[ret.cur]
              k == Len(ret.value)
              before == cur.row_index - k
              left == Len(cur.rows) - before
              n == IF ret.size = NoSize THEN cur.arraysize ELSE ret.size
          IN  /\ before >= 0
              /\ ret.value = SubSeq(cur.rows, before + 1, cur.row_index)
              /\ ret.op = "fetchone" =>
                    IF left > 0 THEN k = 1 /\ ~ret.none ELSE k = 0 /\ ret.none
              /\ ret.op = "fetchmany" => k = Min(n, left)
              /\ ret.op = "fetchall" => k = left /\ cur.row_index = Len(cur.rows)

\* A fetchall that returned the rows left by earlier fetches of a result of
\* three rows or more
C14_Witness ==
    /\ ret.op = "fetchall" /\ ret.exc = "None"
    /\ Len(cursor[ret.cur].rows) >= 3
    /\ Len(ret.value) \in 1..(Len(cursor[ret.cur].rows) - 2)
    /\ cursor[ret.cur].returned = cursor[ret.cur].rows
    /\ cursor[ret.cur].rows = [i \in 1..Len(cursor[ret.cur].rows) |-> Row(i)]

\* C15: when the answer to the submission carries no statementHandle, or an
\* empty one, the execute has ended with DatabaseError and has made no status
\* request and no page request for the statement.
C15_NoHandleRaises ==
    ( /\ exec.op \in ExecOps
      /\ exec.last_kind = "ok"
      /\ cursor[exec.cur].statement_handle \in {"", NoneHandle} )
    => ( /\ Ended
         /\ ret.exc = "DatabaseError"
         /\ ret.msg = <<"No statement handle returned from server">>
         /\ exec.polls = 0 /\ exec.sleeps = <<>>
         /\ exec.fetches = 0 /\ exec.results_gets = 0 )

\* The submission was answered with an empty handle
C15_Witness ==
    /\ ret.op = "execute" /\ ret.exc = "DatabaseError" /\ ret.sent
    /\ exec.last_kind = "ok"
    /\ cursor[ret.cur].statement_handle = ""
    /\ exec.polls = 0

\* Cursor c gave up its credential resolution and then sent a request
RequestAfterFailure(c) ==
    /\ auth.cur[c].failed
    /\ auth.request.kind = "data" /\ auth.request.by = c

\* C16 as the specification states it: after a credential resolution that
\* failed, the requests that follow carry no Authorization header.
C16_FailureLeavesNoHeader ==
    \A c \in CursorIds :
        RequestAfterFailure(c) => auth.request.carried = NoHeader

\* C16: a credential resolution that fails (transport failure, HTTP error
\* status, unusable body or a body without token) leaves the cursor without
\* token and the session's Authorization header as it was; the requests
\* that follow carry a bearer header, that of the connection's token or of
\* a token written by a resolution that succeeded.
C16_FailureKeepsHeader ==
    /\ [][ \A c \in CursorIds :
             ( auth.cur[c].pc = "post" /\ auth'.cur[c].failed )
             => ( /\ auth'.header = auth.header
                  /\ auth'.cur[c].jwt_token = NoToken
                  /\ ~auth'.cur[c].raised ) ]_vars
    /\ [](\A c \in CursorIds :
             RequestAfterFailure(c) =>
                 /\ auth.cur[c].jwt_token = NoToken
                 /\ auth.request.carried \in
                       {Bearer(auth.secret)}
                       \cup { Bearer(auth.writes[i]) : i \in 1..Len(auth.writes) })

\* The request of a cursor whose resolution failed carries the connection's
\* token
C16_Witness ==
    \E c \in CursorIds :
        /\ RequestAfterFailure(c)
        /\ auth.cur[c].posts = 1
        /\ auth.writes = <<>>
        /\ auth.request.carried = Bearer("secret")

\* C17: no exception leaves the creation of a cursor, whatever the token
\* endpoint answers; and without username or without secret the creation
\* sends no token request.
C17_CreationNeverFails ==
    \A c \in CursorIds :
        /\ ~auth.cur[c].raised
        /\ auth.cur[c].pc # "raised"
        /\ ~(Truthy(auth.username) /\ Truthy(auth.secret)) =>
              /\ auth.cur[c].posts = 0
              /\ auth.cur[c].pc \in {"none", "done"}
        /\ auth.cur[c].posts <= 1

\* One cursor was created after a failed token request, the other with a
\* token
C17_Witness ==
    /\ auth.cur["c1"].pc = "done" /\ auth.cur["c1"].failed
    /\ auth.cur["c1"].posts = 1
    /\ auth.cur["c2"].pc = "done" /\ auth.cur["c2"].jwt_token = "t1"

\* C18: every request on the session carries the bearer token that the
\* last resolution to write the header wrote, whichever cursor sends it, and
\* the header of the connection's token before any wrote.
C18_LastWriterWins ==
    /\ auth.header = IF auth.writes = <<>> THEN SessionHeader(auth.secret)
                     ELSE Bearer(auth.writes[Len(auth.writes)])
    /\ auth.request.kind # "none" =>
          auth.request.carried =
              IF auth.request.nwrites = 0 THEN SessionHeader(auth.secret)
              ELSE Bearer(auth.writes[auth.request.nwrites])

\* A cursor that resolved t1 sends a request that carries t2
C18_Witness ==
    \E c \in CursorIds :
        /\ auth.request.kind = "data" /\ auth.request.by = c
        /\ auth.cur[c].jwt_token = "t1"
        /\ auth.request.carried = Bearer("t2")

\* rows is k >= 2 copies of one non-empty page
Copies(rows, k) ==
    /\ k >= 2 /\ Len(rows) >= k /\ Len(rows) % k = 0
    /\ LET p == Len(rows) \div k
       IN  \A i \in 1..Len(rows) : rows[i] = rows[((i - 1) % p) + 1]

\* C19 as the specification states it: against a service that answers every
\* page request with the same non-empty page the progress guard stops the
\* loop, so _fetch_results is never about to ask for one more page when all
\* the pages it received were copies of the first.
C19_DuplicatePageStops ==
    ~( /\ exec.pc = "page"
       /\ exec.fetches >= 2
       /\ Copies(exec.rows, exec.fetches) )

\* The loop tail was reached: the page gained at least one row
Gained == loop.seen /\ ~loop.raised /\ loop.fetched_this_page > 0

\* C20: after a page that gained at least one row the loop ends exactly
\* when a total was reported and the offset has reached it, or the page has
\* no next page and either no total was reported or the offset has reached
\* it.  With a reported total not reached it goes on even without next page;
\* with no total it goes on exactly while the page has a next page.
C20_StopsExactlyWhen ==
    Gained =>
        LET reported == loop.total_rows # NoTotal
            reached == loop.offset >= loop.total_rows
        IN  /\ loop.stopped <=>
                  \/ reported /\ reached
                  \/ ~loop.next_page /\ (~reported \/ reached)
            /\ reported /\ ~reached => ~loop.stopped
            /\ ~reported => (~loop.stopped <=> loop.next_page)
            /\ ~loop.stopped => exec.pc = "page" /\ exec.offset = loop.offset

\* A page without next page below the reported total: the loop goes on
C20_Witness ==
    /\ Gained
    /\ loop.total_rows = 3 /\ loop.offset = 2
    /\ ~loop.next_page
    /\ ~loop.stopped

\* The description of cursor c names exactly the columns in names
Describes(c, names) ==
    IF names = <<>> THEN cursor[c].description = NoDescription
    ELSE /\ Len(cursor[c].description) = Len(names)
         /\ \A i \in 1..Len(names) :
               cursor[c].description[i] =
                   <<names[i], "None", "None", "None", "None", "None", "None">>

\* C21: within one execution the description is that of the first page read
\* that carried column names (its column metadata, else the entries of its
\* column-oriented payload), none before such a page, and once set no later
\* page changes it.
C21_DescriptionFirstWins ==
    /\ [](Describes(exec.cur, loop.first))
    /\ [][ cursor[exec.cur].description # NoDescription
           => cursor'[exec.cur].description = cursor[exec.cur].description ]_vars

\* A later page carried other column names than the first, and the
\* description is still that of the first
C21_Witness ==
    /\ loop.first = <<"a", "b">>
    /\ loop.last = <<"id", "name">>
    /\ exec.fetches >= 2
    /\ NamesOf(cursor[exec.cur].description) = <<"a", "b">>

\* The length of the shortest column
Shortest(lens) ==
    CHOOSE n \in 0..MaxValues + 1 :
        /\ \E j \in 1..Len(lens) : lens[j] = n
        /\ \A j \in 1..Len(lens) : lens[j] >= n

\* C22 as the specification states it: a column-oriented page whose columns
\* have value sequences of differing lengths is assembled without error
\* into as many rows as its shortest column has values, row i holding value
\* i of every column in column order.
C22_ShortestColumnRows ==
    ( /\ mat.done
      /\ mat.page.in.data = "records"
      /\ ~EqualLengths(mat.page.in.lens) )
    => ( /\ ~mat.raised
         /\ mat.rows = Transposed(Shortest(mat.page.in.lens),
                                  Len(mat.page.in.lens)) )

\* The execute under study has returned normally
ExecuteReturned ==
    /\ exec.pc = "idle"
    /\ ret.op = "execute" /\ ret.exc = "None"

\* C23: when an execute returns normally on a cursor that held the result
\* of an earlier execute, partly fetched or not, the buffer is exactly the
\* rows that this execution collected from its pages, in order, the read
\* position is 0, rowcount is the number of buffered rows, and the
\* description is the one this execution captured, None if it captured none.
C23_ExecuteReplacesResult ==
    ExecuteReturned =>
        LET c == ret.cur
        IN  /\ exec.fetches > 0
            /\ cursor[c].rows = exec.rows
            /\ cursor[c].row_index = 0
            /\ cursor[c].rowcount = Len(exec.rows)
            /\ cursor[c].returned = <<>>
            /\ cursor[c].description = NoDescription <=> ~exec.has_description

\* The cursor held two rows, both fetched, and a description; the execute
\* that returned found no row and no column names
C23_Witness ==
    /\ ExecuteReturned
    /\ Len(prev.rows) = 2 /\ prev.row_index = 2
    /\ prev.description # NoDescription
    /\ cursor[ret.cur].rows = <<>>
    /\ cursor[ret.cur].description = NoDescription

\* The execute under study has raised
ExecuteFailed ==
    /\ exec.pc = "idle"
    /\ ret.op = "execute" /\ ret.exc \notin {"None", "InFlight"}

\* C27: when an execute raises on an open cursor, at the submission, in the
\* polling or in a page fetch, the cursor keeps nothing of the result it
\* held: the buffer is empty, the read position 0 and rowcount -1; when it
\* raises because the cursor is closed, the cursor is as it was and no
\* request was sent.
C27_FailedExecuteDiscards ==
    ExecuteFailed =>
        LET c == ret.cur
        IN  IF prev.closed
            THEN /\ cursor[c] = prev
                 /\ ret.exc = "ProgrammingError"
                 /\ ~ret.sent
            ELSE /\ cursor[c].rows = <<>>
                 /\ cursor[c].row_index = 0
                 /\ cursor[c].rowcount = -1
                 /\ cursor[c].returned = <<>>

\* The cursor held two rows; the execute collected a row and then raised
\* in its second page fetch
C27_Witness ==
    /\ ExecuteFailed
    /\ ~prev.closed /\ Len(prev.rows) = 2
    /\ exec.fetches = 2 /\ Len(exec.rows) >= 1
    /\ cursor[ret.cur].rows = <<>>

\* The most status polls of one statement, six sleeps below the cap and 58
\* of 5.0, and the cumulative sleep at the deadline, 300.390625, in time units
MostPolls == 6 + 58
SleepAtDeadline == 300 * Scale + 50

\* The intervals below the cap: 0.5, 0.75, 1.125, 1.6875, 2.53125, 3.796875
FirstSleeps == <<64, 96, 144, 216, 324, 486>>

\* The call ended with the timeout error
RaisedTimeout ==
    /\ exec.pc = "idle"
    /\ ret.exc = "OperationalError"
    /\ ret.msg = <<"Statement execution timed out">>

\* C26: the poller classifies at most 64 status polls for one statement;
\* its sleeps are 0.5, 0.75, 1.125, 1.6875, 2.53125, 3.796875 and then 5.0,
\* their sum stays below the 300-unit deadline through 63 sleeps and is
\* 300.390625 after the 64th, so it never exceeds 305, and the timeout error
\* is raised after exactly 64 pending polls.
C26_AtMost64Polls ==
    /\ exec.polls <= MostPolls
    /\ Len(exec.sleeps) <= MostPolls
    /\ \A i \in 1..Len(exec.sleeps) :
          exec.sleeps[i] = IF i <= 6 THEN FirstSleeps[i] ELSE 5 * Scale
    /\ SumSeq(exec.sleeps) <= 305 * Scale
    /\ Len(exec.sleeps) < MostPolls => SumSeq(exec.sleeps) < MaxWait
    /\ Len(exec.sleeps) = MostPolls => SumSeq(exec.sleeps) = SleepAtDeadline
    /\ RaisedTimeout =>
          /\ exec.polls = MostPolls
          /\ Len(exec.sleeps) = MostPolls
          /\ LastPolled(PendingStates)

\* The timeout error after 64 pending polls
C26_Witness ==
    /\ RaisedTimeout
    /\ exec.polls = 64
    /\ SumSeq(exec.sleeps) = 38450

\* Pagination has begun: _fetch_results was called or is in its loop
Paging == exec.pc \in {"fetch", "page"}

\* C24: within one execute the requests come in order: the submission, then
\* status polls, then page fetches.  Polling starts only with the submission
\* and for the handle it returned; pagination starts only from a poll that
\* saw SUCCEEDED, SUCCESS or COMPLETED; an execute whose polling ended with a
\* failed or unknown state, a failing request or the timeout fetched no
\* page; and once pagination has begun there is no sleep, no classified poll
\* and no return to polling.
C24_SubmitPollFetch ==
    /\ [](exec.pc \in {"poll", "fetch", "page"} =>
             /\ exec.sent
             /\ cursor[exec.cur].statement_handle \in Handles)
    /\ [](exec.pc = "poll" => exec.fetches = 0 /\ exec.results_gets = 0)
    /\ [](exec.pc = "fetch" => LastPolled(SucceededStates) /\ exec.fetches = 0)
    /\ []((Ended /\ exec.polls > 0) => exec.fetches = 0 /\ exec.results_gets = 0)
    /\ []((Ended /\ RaisedTimeout) => exec.fetches = 0 /\ exec.results_gets = 0)
    /\ [][ /\ (exec'.pc = "poll" /\ exec.pc # "poll") =>
                 exec.pc \in {"idle", "next"} /\ exec'.polls = 0
           /\ (exec'.pc = "fetch" /\ exec.pc # "fetch") => exec.pc = "poll"
           /\ (exec'.pc = "page" /\ exec.pc # "page") => exec.pc = "fetch"
           /\ exec'.fetches > exec.fetches => exec.pc = "page"
           /\ exec'.polls > exec.polls => exec.pc = "poll"
           /\ Len(exec'.sleeps) > Len(exec.sleeps) => exec.pc = "poll"
           /\ Paging => /\ exec'.pc \in {"page", "idle", "next"}
                        /\ exec'.sleeps = <<>> /\ exec'.polls = 0 ]_vars

\* Two pending polls and a succeeded one, then pagination
C24_Witness ==
    /\ exec.pc = "fetch"
    /\ exec.polls = 3 /\ Len(exec.sleeps) = 2

\* The call of cursor c's caller, running or not
Ctx(c) ==
    IF Running(c) THEN [exec |-> exec, srv |-> srv, ret |-> ret] ELSE parked

\* Cursor c is as its own calls and its own statement's pages make it
AsAlone(c) ==
    LET x == Ctx(c).exec
        r == Ctx(c).ret
        n == PairStatement(c).n
    IN  /\ x.cur = c /\ r.cur = c
        /\ \E k \in 0..n : cursor[c].rows = ResultRows(k)
        /\ cursor[c].returned = SubSeq(cursor[c].rows, 1, cursor[c].row_index)
        /\ x.pc \in {"poll", "fetch", "page"} =>
              /\ cursor[c].rows = <<>> /\ cursor[c].rowcount = -1
              /\ cursor[c].row_index = 0
              /\ cursor[c].statement_handle \in Handles
              /\ cursor[c].description # NoDescription => x.has_description
        /\ (x.pc = "idle" /\ r.op = "execute" /\ r.exc = "None") =>
              /\ cursor[c].rows = x.rows
              /\ cursor[c].rowcount = Len(x.rows)
              /\ cursor[c].row_index = 0
              /\ cursor[c].description = NoDescription <=> ~x.has_description
        /\ r.op = "none" => cursor[c] = NewCursor

\* C25: with two cursors of one open connection, each driven by its own
\* caller, and the callers' steps interleaved in any order, a step of one
\* caller changes neither the other cursor nor the other caller's call, a
\* change of caller changes no cursor, no step changes the connection, and
\* each cursor's handle, description, buffer, position and rowcount are
\* those its own calls and its own statement's pages give it.
C25_CursorsIsolated ==
    /\ [](\A c \in CursorIds : AsAlone(c))
    /\ [][ /\ conn' = conn
           /\ IF exec'.cur = exec.cur
              THEN /\ parked' = parked
                   /\ \A d \in CursorIds \ {exec.cur} : cursor'[d] = cursor[d]
              ELSE /\ cursor' = cursor
                   /\ parked' = [exec |-> exec, srv |-> srv, ret |-> ret]
                   /\ exec' = parked.exec /\ srv' = parked.srv
                   /\ ret' = parked.ret ]_vars

\* Both executes are in their pagination loops with a row each; the cursor
\* of the column-oriented statement has its description, the other none
C25_Witness ==
    /\ exec.pc = "page" /\ parked.exec.pc = "page"
    /\ Len(exec.rows) = 1 /\ Len(parked.exec.rows) = 1
    /\ cursor["c1"].description = NoDescription
    /\ cursor["c2"].description # NoDescription

====
